---------------------------- MODULE Spec2Model ----------------------------
(***************************************************************************)
(* Model of the data pipeline of the IIoT press-machine dashboard          *)
(* (src/124.py): the duration parser to_min and the cached transformation  *)
(* load_and_process_data (record sanitizer, loss decomposer, loss-reason   *)
(* frequency table).  The Streamlit presentation code (lines 58-133) only  *)
(* reads the two values the transformation returns and is not modelled.    *)
(*                                                                         *)
(* Text is a sequence of lexemes.  In a duration every lexeme is one       *)
(* character ("1", ":", "-", ...); a loss name is a single lexeme ("Jam"). *)
(* A Python float is a decimal n / 10^e (kept normalised) or NaN.          *)
(***************************************************************************)
EXTENDS Integers, Sequences, FiniteSets, TLC

VARIABLES
    t,            \* to_min harness: the argument of the call
    ret,          \* to_min harness: the value returned (Unset before the call)
    raw,          \* the uploaded CSV as read by pd.read_csv: a sequence of rows
    df,           \* the augmented record set returned by load_and_process_data
    loss_counts,  \* the frequency table returned: <<[name, count], ...>>
    outcome       \* "idle" | "returned" | "raised"

vars == <<t, ret, raw, df, loss_counts, outcome>>

\* Longest duration text handed to to_min in SpecToMin.
MaxLen == 4
\* Largest number of rows of an uploaded dataset.
MaxRows == 2

---------------------------------------------------------------------------
(* Python floats *)

RECURSIVE Pow10(_)
Pow10(k) == IF k = 0 THEN 1 ELSE 10 * Pow10(k - 1)

RECURSIVE Norm(_, _)
Norm(n, e) ==
    IF e > 0 /\ n % 10 = 0 THEN Norm(n \div 10, e - 1)
    ELSE [k |-> "num", n |-> n, e |-> e]

Fin(n) == [k |-> "num", n |-> n, e |-> 0]
Zero == Fin(0)
NaN == [k |-> "nan", n |-> 0, e |-> 0]
IsNaN(x) == x.k = "nan"

MaxOf(a, b) == IF a >= b THEN a ELSE b

\* a + b and a - b; NaN propagates.
FAdd(a, b) ==
    IF IsNaN(a) \/ IsNaN(b) THEN NaN
    ELSE LET e == MaxOf(a.e, b.e)
         IN  Norm(a.n * Pow10(e - a.e) + b.n * Pow10(e - b.e), e)

FSub(a, b) ==
    IF IsNaN(a) \/ IsNaN(b) THEN NaN
    ELSE LET e == MaxOf(a.e, b.e)
         IN  Norm(a.n * Pow10(e - a.e) - b.n * Pow10(e - b.e), e)

\* a < b, a > b, a >= b; every comparison with NaN is False.
FLt(a, b) ==
    /\ ~IsNaN(a)
    /\ ~IsNaN(b)
    /\ LET e == MaxOf(a.e, b.e)
       IN  a.n * Pow10(e - a.e) < b.n * Pow10(e - b.e)

FGt(a, b) == FLt(b, a)

FGe(a, b) == ~IsNaN(a) /\ ~IsNaN(b) /\ ~FLt(a, b)

---------------------------------------------------------------------------
(* Python values: str, int/float, None, bool, and list/dict objects *)

PyStr(s) == [t |-> "str", s |-> s, f |-> Zero]
PyNum(x) == [t |-> "num", s |-> <<>>, f |-> x]
PyBool(b) == [t |-> "bool", s |-> <<>>, f |-> IF b THEN Fin(1) ELSE Zero]
PyNone == [t |-> "none", s |-> <<>>, f |-> Zero]
\* a non-empty list or dict
PyObj == [t |-> "obj", s |-> <<>>, f |-> Zero]
\* a key a dict does not hold
Absent == [t |-> "absent", s |-> <<>>, f |-> Zero]

Range(s) == {s[i] : i \in 1..Len(s)}

---------------------------------------------------------------------------
(* to_min, lines 12-19 *)

Digits == {"0", "1", "5"}

DigitVal(c) == CASE c = "0" -> 0 [] c = "1" -> 1 [] c = "5" -> 5

IsDigits(s) == Len(s) > 0 /\ \A i \in 1..Len(s) : s[i] \in Digits

RECURSIVE DecVal(_)
DecVal(s) ==
    IF s = <<>> THEN 0
    ELSE DecVal(SubSeq(s, 1, Len(s) - 1)) * 10 + DigitVal(s[Len(s)])

\* int(s): an optional sign and at least one digit, else ValueError.
ParseInt(s) ==
    LET neg == Len(s) > 0 /\ s[1] = "-"
        body == IF neg THEN Tail(s) ELSE s
    IN  IF IsDigits(body)
        THEN [ok |-> TRUE, v |-> IF neg THEN 0 - DecVal(body) ELSE DecVal(body)]
        ELSE [ok |-> FALSE, v |-> 0]

\* float(s): an optional sign, then "nan" or a decimal numeral with at most
\* one point and at least one digit, else ValueError.
ParseFloat(s) ==
    LET neg == Len(s) > 0 /\ s[1] = "-"
        body == IF neg THEN Tail(s) ELSE s
        dots == {i \in 1..Len(body) : body[i] = "."}
    IN  IF body = <<"n", "a", "n">> THEN [ok |-> TRUE, v |-> NaN]
        ELSE IF dots = {} /\ IsDigits(body)
        THEN [ok |-> TRUE,
              v |-> Fin(IF neg THEN 0 - DecVal(body) ELSE DecVal(body))]
        ELSE IF Cardinality(dots) = 1
        THEN LET p == CHOOSE i \in dots : TRUE
                 ip == SubSeq(body, 1, p - 1)
                 fp == SubSeq(body, p + 1, Len(body))
                 m == DecVal(ip) * Pow10(Len(fp)) + DecVal(fp)
             IN  IF /\ Len(ip) + Len(fp) > 0
                    /\ \A i \in 1..Len(ip) : ip[i] \in Digits
                    /\ \A i \in 1..Len(fp) : fp[i] \in Digits
                 THEN [ok |-> TRUE,
                       v |-> Norm(IF neg THEN 0 - m ELSE m, Len(fp))]
                 ELSE [ok |-> FALSE, v |-> Zero]
        ELSE [ok |-> FALSE, v |-> Zero]

\* float(t) for a value whose str() holds no colon.
PyFloat(x) ==
    CASE x.t = "str" -> ParseFloat(x.s)
      [] x.t \in {"num", "bool"} -> [ok |-> TRUE, v |-> x.f]
      [] OTHER -> [ok |-> FALSE, v |-> Zero]   \* TypeError

\* to_min with the two parts of "H:M" taken the other way round
to_min_minutes_first(x) ==
    IF x.t = "str" /\ ":" \in Range(x.s)
    THEN LET colons == {i \in 1..Len(x.s) : x.s[i] = ":"}
         IN  IF Cardinality(colons) # 1 THEN Zero
             ELSE LET p == CHOOSE i \in colons : TRUE
                      h == ParseInt(SubSeq(x.s, 1, p - 1))
                      m == ParseInt(SubSeq(x.s, p + 1, Len(x.s)))
                  IN  IF h.ok /\ m.ok THEN Fin(h.v + m.v * 60) ELSE Zero
    ELSE IF x.t = "obj" THEN Zero
    ELSE LET r == PyFloat(x)
         IN  IF r.ok THEN r.v ELSE Zero

to_min(x) ==
    IF x.t = "str" /\ ":" \in Range(x.s)
    THEN LET colons == {i \in 1..Len(x.s) : x.s[i] = ":"}
         IN  IF Cardinality(colons) # 1 THEN Zero   \* h, m = ... cannot unpack
             ELSE LET p == CHOOSE i \in colons : TRUE
                      h == ParseInt(SubSeq(x.s, 1, p - 1))
                      m == ParseInt(SubSeq(x.s, p + 1, Len(x.s)))
                  IN  IF h.ok /\ m.ok THEN Fin(h.v * 60 + m.v) ELSE Zero
    ELSE IF x.t = "obj" THEN Zero   \* str(list) starts with "[": int() or float() raises
    ELSE LET r == PyFloat(x)
         IN  IF r.ok THEN r.v ELSE Zero

---------------------------------------------------------------------------
(* the to_min harness *)

Unset == [k |-> "unset", n |-> 0, e |-> 0]

Chars == Digits \cup {":", "-", ".", "n", "a"}

Texts(n) == UNION {[1..k -> Chars] : k \in 0..n}

DurationValues ==
    {PyStr(s) : s \in Texts(MaxLen)}
        \cup {PyNum(NaN), PyNum(Fin(7)), PyNum(Norm(25, 1)), PyNum(Fin(0 - 3)),
              PyNone, PyBool(TRUE), PyObj}

InitToMin ==
    /\ t \in DurationValues
    /\ ret = Unset
    /\ raw = <<>>
    /\ df = <<>>
    /\ loss_counts = <<>>
    /\ outcome = "idle"

CallToMin ==
    /\ ret = Unset
    /\ ret' = to_min(t)
    /\ UNCHANGED <<t, raw, df, loss_counts, outcome>>

NextToMin == CallToMin

SpecToMin == InitToMin /\ [][NextToMin]_vars

---------------------------------------------------------------------------
(* the multiple_loss_code text and json.loads, line 37 *)

\* One lexeme of the text: "[", "]", ",", an object literal ("obj"), a number
\* literal ("num") or a bare word ("word", such as the nan of an empty cell).
\* quote is the quote character the literal's keys and strings are written
\* with, inner a quote character that occurs inside one of its strings
\* ("" when none does), v the value the literal denotes.
Tok(k) == [k |-> k]

\* {'lossName': name, 'lossTime': time}; Absent leaves the key out.
Event(name, time) == [t |-> "dict", name |-> name, time |-> time]

ObjTok(quote, inner, ev) == [k |-> "obj", quote |-> quote, inner |-> inner, v |-> ev]

\* str.replace("'", '"') on one lexeme
ReplaceQuote(c) == IF c = "'" THEN "\"" ELSE c

\* str(row).replace("'", '"')
Replace(text) ==
    [i \in 1..Len(text) |->
        IF text[i].k = "obj"
        THEN [text[i] EXCEPT !.quote = ReplaceQuote(@), !.inner = ReplaceQuote(@)]
        ELSE text[i]]

\* A lexeme json.loads accepts as a value: a number, or an object whose keys
\* and strings are double-quoted and hold no bare double quote.
IsJsonValue(tok) ==
    \/ tok.k = "num"
    \/ tok.k = "obj" /\ tok.quote = "\"" /\ tok.inner # "\""

\* the value a literal denotes: a dict, or a scalar
ValueOf(tok) == IF tok.k = "obj" THEN tok.v ELSE [t |-> "scalar"]

\* json.loads(text): ok is FALSE for a JSONDecodeError; kind is the type of
\* the value, items the elements of a list.
json_loads(text) ==
    LET n == Len(text)
        inner == SubSeq(text, 2, n - 1)
        bad == [ok |-> FALSE, kind |-> "", items |-> <<>>]
    IN  IF n = 1 /\ IsJsonValue(text[1])
        THEN [ok |-> TRUE, kind |-> IF text[1].k = "obj" THEN "dict" ELSE "num",
              items |-> <<>>]
        ELSE IF n >= 2 /\ text[1].k = "[" /\ text[n].k = "]"
        THEN IF /\ Len(inner) = 0 \/ Len(inner) % 2 = 1
                /\ \A i \in 1..Len(inner) :
                      IF i % 2 = 1 THEN IsJsonValue(inner[i]) ELSE inner[i].k = ","
             THEN [ok |-> TRUE, kind |-> "list",
                   items |-> [j \in 1..((Len(inner) + 1) \div 2) |-> ValueOf(inner[2 * j - 1])]]
             ELSE bad
        ELSE bad

---------------------------------------------------------------------------
(* the loss decomposer's loop body, lines 34-47 *)

MachineIdle == PyStr(<<"Machine Idle">>)

\* item.get(key, default)
DictGet(v, default) == IF v = Absent THEN default ELSE v

\* bool(v)
Truthy(v) ==
    CASE v.t = "str" -> v.s # <<>>
      [] v.t \in {"num", "bool"} -> v.f # Zero
      [] v.t = "obj" -> TRUE
      [] OTHER -> FALSE

\* the loop with "if name:" tested before "name == 'Machine Idle'"
RECURSIVE ForItemsNameFirst(_, _, _, _)
ForItemsNameFirst(items, i, row_reasons, row_idle) ==
    IF i > Len(items) THEN [reasons |-> row_reasons, idle |-> row_idle]
    ELSE IF items[i].t # "dict" THEN [reasons |-> row_reasons, idle |-> row_idle]
    ELSE LET name == DictGet(items[i].name, PyNone)
             time == to_min(DictGet(items[i].time, PyNum(Zero)))
         IN  IF Truthy(name)
             THEN ForItemsNameFirst(items, i + 1, Append(row_reasons, name), row_idle)
             ELSE IF name = MachineIdle
             THEN ForItemsNameFirst(items, i + 1, row_reasons, FAdd(row_idle, time))
             ELSE ForItemsNameFirst(items, i + 1, row_reasons, row_idle)

\* for item in data (lines 38-44), from item i on.  An item that is not a
\* dict has no .get: the AttributeError ends the loop in "except: pass" and
\* row_reasons and row_idle keep what they hold.
RECURSIVE ForItems(_, _, _, _)
ForItems(items, i, row_reasons, row_idle) ==
    IF i > Len(items) THEN [reasons |-> row_reasons, idle |-> row_idle]
    ELSE IF items[i].t # "dict" THEN [reasons |-> row_reasons, idle |-> row_idle]
    ELSE LET name == DictGet(items[i].name, PyNone)
             time == to_min(DictGet(items[i].time, PyNum(Zero)))
         IN  IF name = MachineIdle
             THEN ForItems(items, i + 1, row_reasons, FAdd(row_idle, time))
             ELSE IF Truthy(name)
             THEN ForItems(items, i + 1, Append(row_reasons, name), row_idle)
             ELSE ForItems(items, i + 1, row_reasons, row_idle)

\* One pass of "for row in df['multiple_loss_code']": the pair appended to
\* true_reasons and idle_total_mins.  A value that is not a list raises
\* before anything is accumulated (a dict iterates its keys, which are str).
RowLoss(row) ==
    LET data == json_loads(Replace(row))
    IN  IF data.ok /\ data.kind = "list"
        THEN ForItems(data.items, 1, <<>>, Zero)
        ELSE [reasons |-> <<>>, idle |-> Zero]

---------------------------------------------------------------------------
(* the record sanitizer, lines 26-27 *)

SentinelToolIds == {Fin(50), Fin(500)}

NotSentinel(r) == r.tool_id \notin SentinelToolIds

\* df['machine_id'] >= 0 in place of > 0
MachineNonNegative(r) == FGe(r.machine_id, Zero)

MachinePositive(r) == FGt(r.machine_id, Zero)

NotNa(r) == ~IsNaN(r.machine_id) /\ ~IsNaN(r.tool_id)

\* df[~df['tool_id'].isin([50, 500, 50.0, 500.0])]
Clean26(rows) == SelectSeq(rows, NotSentinel)

\* df[df['machine_id'] > 0].dropna(subset=['machine_id', 'tool_id'])
Clean27(rows) == SelectSeq(SelectSeq(rows, MachinePositive), NotNa)

---------------------------------------------------------------------------
(* lines 49-56 *)

\* clip(lower=0): NaN stays NaN
ClipLower0(x) == IF FLt(x, Zero) THEN Zero ELSE x

\* one row of the returned frame
Augment(r, loss) ==
    [idx |-> r.idx, machine_id |-> r.machine_id, tool_id |-> r.tool_id,
     downtime |-> r.downtime, multiple_loss_code |-> r.multiple_loss_code,
     net_idle_m |-> loss.idle,
     net_downtime_m |-> ClipLower0(FSub(to_min(r.downtime), loss.idle))]

\* [item for sublist in true_reasons ... for item in sublist]
RECURSIVE Flatten(_)
Flatten(lists) ==
    IF lists = <<>> THEN <<>> ELSE Head(lists) \o Flatten(Tail(lists))

\* hash(v) raises TypeError for a list or a dict
Hashable(v) == v.t # "obj"

\* pd.Series(flat).value_counts(): one entry per distinct value, ordered by
\* descending count; the order among equal counts is left open.
ValueCounts(flat) ==
    LET names == Range(flat)
        n == Cardinality(names)
        count(x) == Cardinality({i \in 1..Len(flat) : flat[i] = x})
        orders == {o \in [1..n -> names] :
                     /\ \A i, j \in 1..n : i # j => o[i] # o[j]
                     /\ \A i \in 1..n : i < n => count(o[i]) >= count(o[i + 1])}
    IN  {[i \in 1..n |-> [name |-> o[i], count |-> count(o[i])]] : o \in orders}

\* The whole of load_and_process_data(file), lines 22-56.
load_and_process_data ==
    /\ outcome = "idle"
    /\ LET cleaned == Clean27(Clean26(raw))
           loss == [i \in 1..Len(cleaned) |-> RowLoss(cleaned[i].multiple_loss_code)]
           out == [i \in 1..Len(cleaned) |-> Augment(cleaned[i], loss[i])]
           flat_reasons == Flatten([i \in 1..Len(cleaned) |-> loss[i].reasons])
       IN  IF \A i \in 1..Len(flat_reasons) : Hashable(flat_reasons[i])
           THEN /\ df' = out
                /\ loss_counts' \in ValueCounts(flat_reasons)
                /\ outcome' = "returned"
           ELSE /\ df' = <<>>            \* TypeError at line 54: nothing is returned
                /\ loss_counts' = <<>>
                /\ outcome' = "raised"
    /\ UNCHANGED <<t, ret, raw>>

---------------------------------------------------------------------------
(* uploaded datasets *)

Str4(a, b, c, d) == PyStr(<<a, b, c, d>>)

\* downtime cells: "1:00", "0:15", an empty cell, the text "-", the number -5
DowntimeSamples ==
    {Str4("1", ":", "0", "0"), Str4("0", ":", "1", "5"), PyNum(NaN),
     PyStr(<<"-">>), PyNum(Fin(0 - 5))}

Obj(name, time) == ObjTok("'", "", Event(name, time))

Idle15 == Obj(MachineIdle, Str4("0", ":", "1", "5"))
Idle100 == Obj(MachineIdle, PyStr(<<"1", "0", "0">>))
IdleNeg == Obj(MachineIdle, PyStr(<<"-", "5">>))
IdleNaN == Obj(MachineIdle, PyNum(NaN))
IdleLower == Obj(PyStr(<<"machine idle">>), Str4("0", ":", "1", "5"))
Jam == Obj(PyStr(<<"Jam">>), Str4("0", ":", "0", "5"))
Die == Obj(PyStr(<<"Die Change">>), Absent)
NoName == Obj(Absent, Str4("0", ":", "1", "5"))
EmptyName == Obj(PyStr(<<>>), PyNone)
ListName == Obj(PyObj, PyNum(Fin(1)))
\* {'lossName': 'Operator's break', 'lossTime': '0:05'}
Apostrophe == ObjTok("'", "'", Event(PyStr(<<"Operator's break">>), Str4("0", ":", "0", "5")))
\* the number literal 7
Seven == Tok("num")

RECURSIVE Commas(_)
Commas(toks) ==
    IF Len(toks) <= 1 THEN toks
    ELSE <<Head(toks), Tok(",")>> \o Commas(Tail(toks))

\* the text "[a, b, ...]"
JsonList(toks) == <<Tok("[")>> \o Commas(toks) \o <<Tok("]")>>

PayloadSamples ==
    {JsonList(<<>>), JsonList(<<Idle15>>), JsonList(<<Jam>>),
     JsonList(<<Idle15, Jam>>),
     JsonList(<<Jam, Idle15>>), JsonList(<<Jam, Die, Jam>>),
     JsonList(<<Idle15, Jam, Idle100>>),
     JsonList(<<IdleLower, NoName>>), JsonList(<<EmptyName, Die>>),
     JsonList(<<IdleNeg>>), JsonList(<<IdleNaN>>), JsonList(<<ListName>>),
     JsonList(<<Idle15, Seven>>), JsonList(<<Jam, Seven>>),
     JsonList(<<Seven, Jam>>),
     JsonList(<<Apostrophe>>),           \* the replace breaks the string
     <<Tok("["), Jam>>,                  \* no closing bracket
     <<Jam>>,                            \* a dict, not a list
     <<Seven>>,                          \* a number, not a list
     <<Tok("word")>>}                    \* str(nan) of an empty cell

IdSamples ==
    ({NaN, Fin(0 - 1), Fin(0), Fin(1)} \X {NaN, Fin(7), Fin(500)})
        \cup {<<Fin(1), Fin(50)>>}

Cell(id, downtime, code) ==
    [machine_id |-> id[1], tool_id |-> id[2], downtime |-> downtime,
     multiple_loss_code |-> code]

ValidId == <<Fin(1), Fin(7)>>

RowSamples ==
    {Cell(id, Str4("1", ":", "0", "0"), JsonList(<<Jam>>)) : id \in IdSamples}
        \cup {Cell(ValidId, d, c) :
                d \in DowntimeSamples,
                c \in {JsonList(<<Idle15>>), JsonList(<<IdleNeg>>)}}
        \cup {Cell(ValidId, Str4("1", ":", "0", "0"), c) : c \in PayloadSamples}

\* pd.read_csv(file): row i of the file gets index i
read_csv(rows) ==
    [i \in 1..Len(rows) |->
        [idx |-> i, machine_id |-> rows[i].machine_id, tool_id |-> rows[i].tool_id,
         downtime |-> rows[i].downtime,
         multiple_loss_code |-> rows[i].multiple_loss_code]]

Datasets == {read_csv(rows) : rows \in UNION {[1..k -> RowSamples] : k \in 0..MaxRows}}

Init ==
    /\ raw \in Datasets
    /\ t = PyNone
    /\ ret = Unset
    /\ df = <<>>
    /\ loss_counts = <<>>
    /\ outcome = "idle"

Next == load_and_process_data

Spec == Init /\ [][Next]_vars

---------------------------------------------------------------------------
(* what the claims speak of, stated apart from the code above *)

\* a == b on numbers: never true of NaN
NumEq(a, b) == ~IsNaN(a) /\ ~IsNaN(b) /\ a = b

\* a <= b on numbers
NumLe(a, b) == ~IsNaN(a) /\ ~IsNaN(b) /\ ~FLt(b, a)

\* max(0, x)
Max0(x) == IF FGt(x, Zero) THEN x ELSE Zero

\* the digits d_1 ... d_n read as sum of d_i * 10^(n - i)
RECURSIVE PlaceValue(_, _)
PlaceValue(d, i) ==
    IF i > Len(d) THEN 0
    ELSE DigitVal(d[i]) * Pow10(Len(d) - i) + PlaceValue(d, i + 1)

Unsigned(s) == IF Len(s) > 0 /\ s[1] = "-" THEN Tail(s) ELSE s

SignOf(s) == IF Len(s) > 0 /\ s[1] = "-" THEN 0 - 1 ELSE 1

IsDigit(c) == c \in {"0", "1", "5"}

\* an integer numeral: -?[0-9]+
IsIntegerText(s) ==
    /\ Len(Unsigned(s)) > 0
    /\ \A i \in 1..Len(Unsigned(s)) : IsDigit(Unsigned(s)[i])

IntegerOf(s) == SignOf(s) * PlaceValue(Unsigned(s), 1)

\* a plain decimal numeral: -?([0-9]+(.[0-9]*)? | .[0-9]+)
IsNumberText(s) ==
    LET u == Unsigned(s)
    IN  /\ \E i \in 1..Len(u) : IsDigit(u[i])
        /\ \A i \in 1..Len(u) : IsDigit(u[i]) \/ u[i] = "."
        /\ Cardinality({i \in 1..Len(u) : u[i] = "."}) <= 1

NumberOf(s) ==
    LET u == Unsigned(s)
        d == SelectSeq(u, IsDigit)
        frac == IF \E i \in 1..Len(u) : u[i] = "."
                THEN Len(u) - (CHOOSE i \in 1..Len(u) : u[i] = ".")
                ELSE 0
    IN  Norm(SignOf(s) * PlaceValue(d, 1), frac)

\* the text is "H:M" with integers H and M, the colon at p
IsHoursMinutes(s, p) ==
    /\ s[p] = ":"
    /\ IsIntegerText(SubSeq(s, 1, p - 1))
    /\ IsIntegerText(SubSeq(s, p + 1, Len(s)))

\* a duration that cannot be parsed: a missing value (None, or the NaN of an
\* empty cell), a list or dict, or a text that is neither "H:M" nor a number
Unparseable(x) ==
    \/ x.t \in {"none", "obj"}
    \/ x.t = "num" /\ IsNaN(x.f)
    \/ /\ x.t = "str"
       /\ ~IsNumberText(x.s)
       /\ ~\E p \in 1..Len(x.s) : IsHoursMinutes(x.s, p)

\* a record the sanitizer is to keep
ValidRecord(r) ==
    /\ r.machine_id.k = "num"
    /\ r.tool_id.k = "num"
    /\ r.machine_id.n > 0
    /\ r.tool_id \notin {Fin(50), Fin(500)}

\* the multiple_loss_code parses as a list of event objects
ParsesAsEvents(code) ==
    LET data == json_loads(Replace(code))
    IN  /\ data.ok
        /\ data.kind = "list"
        /\ \A i \in 1..Len(data.items) : data.items[i].t = "dict"

\* its loss events; none when it does not parse so
EventsOf(code) ==
    IF ParsesAsEvents(code) THEN json_loads(Replace(code)).items ELSE <<>>

NameOf(ev) == IF ev.name = Absent THEN PyNone ELSE ev.name

TimeOf(ev) == IF ev.time = Absent THEN PyNum(Zero) ELSE ev.time

IsIdle(ev) == NameOf(ev) = PyStr(<<"Machine Idle">>)

\* a loss reason: a name that is present, not empty and not "Machine Idle"
IsReason(ev) == ~IsIdle(ev) /\ NameOf(ev) # PyNone /\ NameOf(ev) # PyStr(<<>>)

RECURSIVE SumIdle(_)
SumIdle(events) ==
    IF events = <<>> THEN Zero
    ELSE FAdd(IF IsIdle(Head(events)) THEN to_min(TimeOf(Head(events))) ELSE Zero,
              SumIdle(Tail(events)))

\* how many loss events of valid records name x as their reason
ReasonCount(x) ==
    Cardinality(UNION {
        {<<i, j>> : j \in {j \in 1..Len(EventsOf(raw[i].multiple_loss_code)) :
                             /\ IsReason(EventsOf(raw[i].multiple_loss_code)[j])
                             /\ NameOf(EventsOf(raw[i].multiple_loss_code)[j]) = x}} :
        i \in {i \in 1..Len(raw) : ValidRecord(raw[i])}})

Returned == outcome = "returned"

---------------------------------------------------------------------------
(* the claims *)

\* C1: every record of the augmented output has net_downtime_m >= 0 (a value
\* that fails the >= 0 test, such as NaN, counts as a violation), whatever
\* the raw downtime and the loss events are.
C1_NetDowntimeNonNegative ==
    Returned => \A i \in 1..Len(df) : FGe(df[i].net_downtime_m, Zero)

\* C2: a sanitized record whose multiple_loss_code fails to parse (malformed
\* text, wrong shape, non-list), wherever the failure shows up, is kept with
\* net_idle_m = 0.0 and net_downtime_m = max(0, to_min(downtime)), and adds
\* no name to the frequency table.
C2_ParseFailureIsZeroEvents ==
    Returned =>
        /\ \A i \in 1..Len(raw) :
              (ValidRecord(raw[i]) /\ ~ParsesAsEvents(raw[i].multiple_loss_code)) =>
                  \E k \in 1..Len(df) :
                      /\ df[k].idx = i
                      /\ NumEq(df[k].net_idle_m, Zero)
                      /\ NumEq(df[k].net_downtime_m, Max0(to_min(raw[i].downtime)))
        /\ \A k \in 1..Len(loss_counts) :
              loss_counts[k].count = ReasonCount(loss_counts[k].name)

\* C3: the sanitizer keeps exactly the records whose machine_id and tool_id
\* are present, whose machine_id is > 0 and whose tool_id is neither 50 nor
\* 500, in their input order and with their fields unchanged.
C3_SanitizerKeepsExactlyValid ==
    Returned =>
        LET kept == SelectSeq(raw, ValidRecord)
        IN  /\ Len(df) = Len(kept)
            /\ \A k \in 1..Len(df) :
                  /\ df[k].idx = kept[k].idx
                  /\ df[k].machine_id = kept[k].machine_id
                  /\ df[k].tool_id = kept[k].tool_id
                  /\ df[k].downtime = kept[k].downtime
                  /\ df[k].multiple_loss_code = kept[k].multiple_loss_code

\* C3 witness: of two uploaded rows the first carries the sentinel tool 500
\* and only the second is returned.
C3_Witness ==
    /\ Returned
    /\ Len(raw) = 2
    /\ raw[1].tool_id = Fin(500)
    /\ Len(df) = 1
    /\ df[1].idx = 2

\* C4: the frequency table never holds an entry named exactly "Machine
\* Idle", however many such events there are and wherever they stand.
C4_NoMachineIdleEntry ==
    Returned =>
        \A k \in 1..Len(loss_counts) : loss_counts[k].name # PyStr(<<"Machine Idle">>)

\* C4 witness: a kept record with a Machine Idle event before and after a
\* Jam event has been processed and Jam is in the table.
C4_Witness ==
    /\ Returned
    /\ \E k \in 1..Len(df) :
          LET ev == EventsOf(df[k].multiple_loss_code)
          IN  Len(ev) = 3 /\ IsIdle(ev[1]) /\ ~IsIdle(ev[2]) /\ IsIdle(ev[3])
    /\ \E k \in 1..Len(loss_counts) : loss_counts[k].name = PyStr(<<"Jam">>)

\* C5: to_min returns H*60 + M for every text "H:M" with integers H and M,
\* and the numeric value of every plain number (numeral text or number)
\* without a colon.
C5_ToMinWellFormed ==
    ret # Unset =>
        /\ \A p \in 1..Len(t.s) :
              (t.t = "str" /\ IsHoursMinutes(t.s, p)) =>
                  ret = Fin(IntegerOf(SubSeq(t.s, 1, p - 1)) * 60
                            + IntegerOf(SubSeq(t.s, p + 1, Len(t.s))))
        /\ (t.t = "str" /\ IsNumberText(t.s)) => ret = NumberOf(t.s)
        /\ (t.t = "num" /\ ~IsNaN(t.f)) => ret = t.f

\* C5 witness: to_min("-1:5") has returned -55.
C5_Witness ==
    /\ t = PyStr(<<"-", "1", ":", "5">>)
    /\ ret = Fin(0 - 55)

\* C6: on every duration that cannot be parsed (non-numeric or malformed
\* text, a missing value) to_min returns 0.0.
C6_UnparseableIsZero ==
    (ret # Unset /\ Unparseable(t)) => NumEq(ret, Zero)

\* C7: load_and_process_data never raises, whatever the downtime and
\* multiple_loss_code fields hold.
C7_NeverRaises == outcome # "raised"

\* C8: for every sanitized record whose multiple_loss_code parses as a list
\* of event objects, net_idle_m is the sum of to_min(lossTime) over the
\* events named exactly "Machine Idle" and net_downtime_m is
\* max(0, to_min(downtime) - net_idle_m).
C8_Decomposition ==
    Returned =>
        \A k \in 1..Len(df) :
            ParsesAsEvents(df[k].multiple_loss_code) =>
                /\ NumEq(df[k].net_idle_m, SumIdle(EventsOf(df[k].multiple_loss_code)))
                /\ NumEq(df[k].net_downtime_m,
                         Max0(FSub(to_min(df[k].downtime), df[k].net_idle_m)))

\* C9: the frequency table maps each reason name to the number of parsed
\* loss events of the records that pass the sanitizer whose lossName is that
\* name (not "Machine Idle", not null, not empty), holds every such name
\* once, and is ordered by descending count.
C9_FrequencyTable ==
    Returned =>
        /\ \A k \in 1..Len(loss_counts) :
              /\ loss_counts[k].count > 0
              /\ loss_counts[k].count = ReasonCount(loss_counts[k].name)
        /\ \A i \in 1..Len(raw) :
              \A j \in 1..Len(EventsOf(raw[i].multiple_loss_code)) :
                  LET ev == EventsOf(raw[i].multiple_loss_code)[j]
                  IN  (ValidRecord(raw[i]) /\ IsReason(ev)) =>
                          Cardinality({k \in 1..Len(loss_counts) :
                                          loss_counts[k].name = NameOf(ev)}) = 1
        /\ \A k \in 1..Len(loss_counts) :
              k < Len(loss_counts) => loss_counts[k].count >= loss_counts[k + 1].count

\* C10: removing idle time never increases downtime: every record of the
\* output has net_idle_m >= 0 and net_downtime_m <= max(0, to_min(downtime)),
\* for any loss-event list.
C10_IdleNeverAddsDowntime ==
    Returned =>
        \A k \in 1..Len(df) :
            /\ FGe(df[k].net_idle_m, Zero)
            /\ NumLe(df[k].net_downtime_m, Max0(to_min(df[k].downtime)))

=============================================================================
